---- MODULE Spec2Model ----
(***************************************************************************)
(* Circle-diagram: placement of spawn/bedroom circles on a grid            *)
(* (MapGenerator.Generate), cell classification (getCellType), the         *)
(* weighted initial fill (generateDistribution), the per-epoch diffusion   *)
(* (moveNumbers) and the handlers that own the stored epoch, speeds and    *)
(* cells (setSpeedsHandler, distributeHandler, newEpochHandler).           *)
(* Modelled from src/Circle_diagram/main.go, lines 1046-1856 (the last and *)
(* most complete program of the file).                                     *)
(*                                                                         *)
(* Random draws (math/rand) are nondeterministic choices over the support  *)
(* of the draw.                                                            *)
(***************************************************************************)
EXTENDS Integers, Sequences, FiniteSets, TLC

VARIABLES
    \* ---- createMapHandler / MapGenerator.Generate
    cfg,        \* the request's Config
    spawns,     \* g.spawns
    bedrooms,   \* g.bedrooms
    gpc,        \* position inside createMapHandler / Generate
    slot,       \* loop variable i of the slot loops (0-based)
    attempts,   \* loop variable attempts of the retry loop
    genErr,     \* the error Generate returned, or NoErr
    placedVia,  \* history: how the position of each accepted circle was drawn,
                \* in order of acceptance ("center", "uniform", "nearby", "fallback")
    \* ---- the stored map (tables maps and map_cells), one map
    mcfg,       \* maps.config
    mapCircles, \* maps.circles
    speedsCol,  \* maps.speeds
    epoch,      \* maps.epoch
    cells,      \* the map_cells rows of the map: row-major sequence of token sequences
    otherCells, \* the map_cells rows of another map, same representation
    \* ---- requests
    req,        \* per request slot: position and locals of newEpochHandler
    resp,       \* per request slot: the last response sent
    okEpochs    \* history: number of successful newEpoch responses

genVars == <<cfg, spawns, bedrooms, gpc, slot, attempts, genErr, placedVia>>

mapVars == <<mcfg, mapCircles, speedsCol, epoch, cells, otherCells, req, resp, okEpochs>>

vars == <<cfg, spawns, bedrooms, gpc, slot, attempts, genErr, placedVia,
          mcfg, mapCircles, speedsCol, epoch, cells, otherCells, req, resp, okEpochs>>

(***************************************************************************)
(* Bounds of the model.                                                    *)
(***************************************************************************)
MaxWidth == 5       \* Width ranges over 0..MaxWidth
MaxHeight == 3      \* Height ranges over 0..MaxHeight
MaxCircles == 2     \* spawn_count + bedroom_count <= MaxCircles
MaxRadius == 1      \* spawn_radius, bedroom_radius range over 0..MaxRadius
MaxGapBound == 2    \* max_gap ranges over 0..MaxGapBound
MaxAttempts == 2    \* retry budget per slot (3000 in the source)

MaxEpoch == 2       \* Spec: newEpoch is called while the stored epoch is below MaxEpoch
StepEpochs == 1     \* SpecStep: the same, on the 3x3 map
AliasEpochs == 1    \* SpecAlias: the same, on the 2x1 map with three buckets

NoErr == [class |-> "none", index |-> 0]

\* Request slots (goroutines serving requests)
Procs == {1, 2}

Idle == [pc |-> "idle", epoch |-> 0, speeds |-> << >>, cells |-> << >>,
         todo |-> << >>, newState |-> << >>]

\* The map_cells rows of another map: one cell holding one token
OtherRows == <<<<0>>>>

NoResp == [op |-> "none", status |-> "none", epoch |-> 0, arg |-> << >>, cells |-> << >>]

\* maps.speeds before any setSpeeds: the column default ''
NoSpeeds == [set |-> FALSE, json |-> << >>]

\* No map is stored, no request is served (placement only)
MapUnused ==
    /\ mcfg = << >>
    /\ mapCircles = << >>
    /\ speedsCol = NoSpeeds
    /\ epoch = 0
    /\ cells = << >>
    /\ otherCells = OtherRows
    /\ req = [p \in Procs |-> Idle]
    /\ resp = [p \in Procs |-> NoResp]
    /\ okEpochs = 0

Sq(n) == n * n

(***************************************************************************)
(* Config and validateConfig.                                              *)
(***************************************************************************)
Configs ==
    {c \in [Width : 0..MaxWidth, Height : 0..MaxHeight,
            Spawns : (0 - 1)..MaxCircles, Bedrooms : (0 - 1)..MaxCircles,
            SpawnR : 0..MaxRadius, BedroomR : 0..MaxRadius,
            MaxGap : 0..MaxGapBound] :
        c.Spawns + c.Bedrooms <= MaxCircles}

\* validateConfig without the upper limit of 100 on the dimensions
validateConfig_NoUpperLimit(c) ==
    /\ ~(c.Width <= 0 \/ c.Height <= 0)
    /\ ~(c.Spawns < 0 \/ c.Bedrooms < 0)

\* validateConfig: TRUE iff it returns nil
validateConfig(c) ==
    /\ ~(c.Width <= 0 \/ c.Height <= 0)
    /\ ~(c.Width > 100 \/ c.Height > 100)
    /\ ~(c.Spawns < 0 \/ c.Bedrooms < 0)

(***************************************************************************)
(* Circles.                                                                *)
(***************************************************************************)
Circle(x, y, r) == [X |-> x, Y |-> y, Radius |-> r]

Tagged(cs, t) ==
    [i \in 1..Len(cs) |->
        [X |-> cs[i].X, Y |-> cs[i].Y, Radius |-> cs[i].Radius, Type |-> t]]

\* getAllCircles that lists the bedrooms before the spawns
getAllCircles_BedroomsFirst(sp, bd) == Tagged(bd, "bedroom") \o Tagged(sp, "spawn")

\* getAllCircles: the spawns tagged "spawn", then the bedrooms tagged "bedroom"
getAllCircles(sp, bd) == Tagged(sp, "spawn") \o Tagged(bd, "bedroom")

\* OutOfBounds with the right and bottom edges tested with > instead of >=
OutOfBounds_EdgeInclusive(c, nc) ==
    \/ nc.X - nc.Radius < 0
    \/ nc.X + nc.Radius > c.Width
    \/ nc.Y - nc.Radius < 0
    \/ nc.Y + nc.Radius > c.Height

\* The bounds test of canPlaceCircle
OutOfBounds(c, nc) ==
    \/ nc.X - nc.Radius < 0
    \/ nc.X + nc.Radius >= c.Width
    \/ nc.Y - nc.Radius < 0
    \/ nc.Y + nc.Radius >= c.Height

\* math.Sqrt(float64(d2)) < float64(s) for integers d2 >= 0 and s: the square
\* root is correctly rounded and monotone, and the root of a perfect square is
\* exact, so the comparison is d2 < s*s when s > 0 and false when s <= 0.
SqrtLess(d2, s) == s > 0 /\ d2 < Sq(s)

\* Overlaps with the existing circle's radius left out of the sum
Overlaps_NewRadiusOnly(nc, ex) ==
    SqrtLess(Sq(nc.X - ex.X) + Sq(nc.Y - ex.Y), nc.Radius)

\* The overlap test of canPlaceCircle against one existing circle
Overlaps(nc, ex) ==
    SqrtLess(Sq(nc.X - ex.X) + Sq(nc.Y - ex.Y), nc.Radius + ex.Radius)

canPlaceCircle(c, sp, bd, nc) ==
    LET all == getAllCircles(sp, bd)
    IN  /\ ~OutOfBounds(c, nc)
        /\ \A i \in 1..Len(all) : ~Overlaps(nc, all[i])

(***************************************************************************)
(* generateNearbyPosition.  The sampled point is                           *)
(*   (base.X + d*cos(a), base.Y + d*sin(a)),  a in [0, 2*pi),              *)
(*   d = min + f*(max - min), f in [0,1), min = base.Radius + radius,      *)
(*   max = min + MaxGap,                                                   *)
(* and int() truncates each coordinate toward zero.  The integer point     *)
(* (x, y) can be produced iff the box of real points truncating to (x, y)  *)
(* meets the annulus min <= d < max (the circle d = min when MaxGap = 0).  *)
(* Over that box the squared distance to the base ranges over an interval; *)
(* AxisLo/AxisHi give the ends of |offset| on one axis and whether the end *)
(* belongs to the box.  b is the base coordinate (b >= 0: the base passed  *)
(* canPlaceCircle).                                                        *)
(***************************************************************************)
AxisLo(b, x) ==
    IF x > 0 THEN (IF x - b >= 0 THEN [v |-> x - b, att |-> TRUE]
                                 ELSE [v |-> b - x - 1, att |-> FALSE])
    ELSE IF x = 0 THEN (IF b = 0 THEN [v |-> 0, att |-> TRUE]
                                 ELSE [v |-> b - 1, att |-> FALSE])
    ELSE [v |-> b - x, att |-> TRUE]

AxisHi(b, x) ==
    IF x > 0 THEN (IF x - b >= 0 THEN [v |-> x - b + 1, att |-> FALSE]
                                 ELSE [v |-> b - x, att |-> TRUE])
    ELSE IF x = 0 THEN [v |-> b + 1, att |-> FALSE]
    ELSE [v |-> b - x + 1, att |-> FALSE]

\* Can one sample of generateNearbyPosition truncate to (x, y)?
Producible(c, base, radius, x, y) ==
    LET min == base.Radius + radius
        max == min + c.MaxGap
        lx == AxisLo(base.X, x)
        ly == AxisLo(base.Y, y)
        hx == AxisHi(base.X, x)
        hy == AxisHi(base.Y, y)
        lo == Sq(lx.v) + Sq(ly.v)
        loAtt == lx.att /\ ly.att
        hi == Sq(hx.v) + Sq(hy.v)
        hiAtt == hx.att /\ hy.att
        reachesMin == hi > Sq(min) \/ (hi = Sq(min) /\ hiAtt)
    IN  IF c.MaxGap = 0
        THEN reachesMin /\ (lo < Sq(min) \/ (lo = Sq(min) /\ loAtt))
        ELSE reachesMin /\ lo < Sq(max)

\* The acceptance test of the sampling loop of generateNearbyPosition
InInset(c, radius, x, y) ==
    /\ x >= radius /\ x < c.Width - radius
    /\ y >= radius /\ y < c.Height - radius

\* Integer points one sample can truncate to
Samples(c, base, radius) ==
    LET reach == base.Radius + radius + c.MaxGap + 1
    IN  {p \in ((base.X - reach)..(base.X + reach))
                \X ((base.Y - reach)..(base.Y + reach)) :
            Producible(c, base, radius, p[1], p[2])}

\* rand.Intn(n) panics for n <= 0
UniformDefined(c, radius) ==
    c.Width - 2 * radius > 0 /\ c.Height - 2 * radius > 0

\* radius + rand.Intn(Width - 2*radius), radius + rand.Intn(Height - 2*radius)
UniformPositions(c, radius) ==
    (radius..(c.Width - radius - 1)) \X (radius..(c.Height - radius - 1))

\* The outcomes of generateNearbyPosition: a sample that passes the inset test
\* ("nearby"); or, when a sample can fail the test (so 30 samples in a row
\* can), the uniform draw ("fallback"), which panics when Intn is undefined.
generateNearbyPosition(c, base, radius) ==
    LET s == Samples(c, base, radius)
        hits == {p \in s : InInset(c, radius, p[1], p[2])}
        canMiss == \E p \in s : ~InInset(c, radius, p[1], p[2])
    IN  {[kind |-> "pos", via |-> "nearby", x |-> p[1], y |-> p[2]] : p \in hits}
        \cup
        (IF ~canMiss THEN {}
         ELSE IF UniformDefined(c, radius)
              THEN {[kind |-> "pos", via |-> "fallback", x |-> p[1], y |-> p[2]] :
                        p \in UniformPositions(c, radius)}
              ELSE {[kind |-> "panic", via |-> "fallback", x |-> 0, y |-> 0]})

\* The candidate position of one retry of a slot loop of Generate
Candidates(c, sp, bd, radius) ==
    LET existing == getAllCircles(sp, bd)
    IN  IF Len(existing) > 0
        THEN UNION {generateNearbyPosition(c, existing[b], radius) :
                        b \in 1..Len(existing)}
        ELSE IF UniformDefined(c, radius)
             THEN {[kind |-> "pos", via |-> "uniform", x |-> p[1], y |-> p[2]] :
                        p \in UniformPositions(c, radius)}
             ELSE {[kind |-> "panic", via |-> "uniform", x |-> 0, y |-> 0]}

(***************************************************************************)
(* createMapHandler and Generate, step by step.                            *)
(***************************************************************************)
\* The 5x5 scenario: one spawn of radius 1, no bedroom
ScenarioConfigs ==
    {[Width |-> 5, Height |-> 5, Spawns |-> 1, Bedrooms |-> 0,
      SpawnR |-> 1, BedroomR |-> 0, MaxGap |-> 0]}

\* Requests whose width or height is above 100
OversizeConfigs ==
    {[Width |-> 101, Height |-> 1, Spawns |-> 0, Bedrooms |-> 0,
      SpawnR |-> 0, BedroomR |-> 0, MaxGap |-> 0],
     [Width |-> 1, Height |-> 101, Spawns |-> 0, Bedrooms |-> 0,
      SpawnR |-> 0, BedroomR |-> 0, MaxGap |-> 0]}

GenInit ==
    /\ cfg \in Configs \cup ScenarioConfigs \cup OversizeConfigs
    /\ spawns = << >>
    /\ bedrooms = << >>
    /\ gpc = "request"
    /\ slot = 0
    /\ attempts = 0
    /\ genErr = NoErr
    /\ placedVia = << >>
    /\ MapUnused

\* createMapHandler: validateConfig rejects the request before any placement
RejectConfig ==
    /\ gpc = "request"
    /\ ~validateConfig(cfg)
    /\ gpc' = "rejected"
    /\ resp' = [resp EXCEPT ![1] = [op |-> "createMap", status |-> "invalid",
                                    epoch |-> 0, arg |-> << >>, cells |-> << >>]]
    /\ UNCHANGED <<mcfg, mapCircles, speedsCol, epoch, cells, otherCells, req, okEpochs>>
    /\ UNCHANGED <<cfg, spawns, bedrooms, slot, attempts, genErr, placedVia>>

\* SeedCenter that skips the center-seeded spawn
SeedCenter_Skip ==
    /\ gpc = "request"
    /\ validateConfig(cfg)
    /\ gpc' = "spawns"
    /\ slot' = 0
    /\ attempts' = 0
    /\ UNCHANGED <<cfg, spawns, bedrooms, genErr, placedVia>>
    /\ UNCHANGED mapVars

\* Generate, lines 1256-1265: the spawn seeded at the grid center
SeedCenter ==
    /\ gpc = "request"
    /\ validateConfig(cfg)
    /\ LET center == Circle(cfg.Width \div 2, cfg.Height \div 2, cfg.SpawnR)
       IN  IF cfg.Spawns > 0 /\ canPlaceCircle(cfg, spawns, bedrooms, center)
           THEN /\ spawns' = Append(spawns, center)
                /\ placedVia' = Append(placedVia, "center")
           ELSE UNCHANGED <<spawns, placedVia>>
    /\ gpc' = "spawns"
    /\ slot' = Len(spawns')
    /\ attempts' = 0
    /\ UNCHANGED <<cfg, bedrooms, genErr>>
    /\ UNCHANGED mapVars

\* One retry of the spawn loop
TrySpawn ==
    /\ gpc = "spawns"
    /\ slot < cfg.Spawns
    /\ attempts < MaxAttempts
    /\ \E cand \in Candidates(cfg, spawns, bedrooms, cfg.SpawnR) :
          IF cand.kind = "panic"
          THEN /\ gpc' = "panic"
               /\ UNCHANGED <<spawns, slot, attempts, placedVia>>
          ELSE LET newCircle == Circle(cand.x, cand.y, cfg.SpawnR)
               IN  IF canPlaceCircle(cfg, spawns, bedrooms, newCircle)
                   THEN /\ spawns' = Append(spawns, newCircle)
                        /\ placedVia' = Append(placedVia, cand.via)
                        /\ slot' = slot + 1
                        /\ attempts' = 0
                        /\ gpc' = gpc
                   ELSE /\ attempts' = attempts + 1
                        /\ UNCHANGED <<spawns, slot, gpc, placedVia>>
    /\ UNCHANGED <<cfg, bedrooms, genErr>>
    /\ UNCHANGED mapVars

\* The retry budget of a spawn slot is used up
SpawnExhausted ==
    /\ gpc = "spawns"
    /\ slot < cfg.Spawns
    /\ attempts >= MaxAttempts
    /\ gpc' = "failed"
    /\ genErr' = [class |-> "spawn", index |-> slot + 1]
    /\ UNCHANGED <<cfg, spawns, bedrooms, slot, attempts, placedVia>>
    /\ UNCHANGED mapVars

\* The spawn loop ends, the bedroom loop starts
SpawnsPlaced ==
    /\ gpc = "spawns"
    /\ slot >= cfg.Spawns
    /\ gpc' = "bedrooms"
    /\ slot' = 0
    /\ attempts' = 0
    /\ UNCHANGED <<cfg, spawns, bedrooms, genErr, placedVia>>
    /\ UNCHANGED mapVars

\* TryBedroom that does not count a rejected attempt
TryBedroom_NoCount ==
    /\ gpc = "bedrooms"
    /\ slot < cfg.Bedrooms
    /\ attempts < MaxAttempts
    /\ \E cand \in Candidates(cfg, spawns, bedrooms, cfg.BedroomR) :
          IF cand.kind = "panic"
          THEN /\ gpc' = "panic"
               /\ UNCHANGED <<bedrooms, slot, attempts, placedVia>>
          ELSE LET newCircle == Circle(cand.x, cand.y, cfg.BedroomR)
               IN  IF canPlaceCircle(cfg, spawns, bedrooms, newCircle)
                   THEN /\ bedrooms' = Append(bedrooms, newCircle)
                        /\ placedVia' = Append(placedVia, cand.via)
                        /\ slot' = slot + 1
                        /\ attempts' = 0
                        /\ gpc' = gpc
                   ELSE UNCHANGED <<bedrooms, slot, attempts, gpc, placedVia>>
    /\ UNCHANGED <<cfg, spawns, genErr>>
    /\ UNCHANGED mapVars

\* One retry of the bedroom loop
TryBedroom ==
    /\ gpc = "bedrooms"
    /\ slot < cfg.Bedrooms
    /\ attempts < MaxAttempts
    /\ \E cand \in Candidates(cfg, spawns, bedrooms, cfg.BedroomR) :
          IF cand.kind = "panic"
          THEN /\ gpc' = "panic"
               /\ UNCHANGED <<bedrooms, slot, attempts, placedVia>>
          ELSE LET newCircle == Circle(cand.x, cand.y, cfg.BedroomR)
               IN  IF canPlaceCircle(cfg, spawns, bedrooms, newCircle)
                   THEN /\ bedrooms' = Append(bedrooms, newCircle)
                        /\ placedVia' = Append(placedVia, cand.via)
                        /\ slot' = slot + 1
                        /\ attempts' = 0
                        /\ gpc' = gpc
                   ELSE /\ attempts' = attempts + 1
                        /\ UNCHANGED <<bedrooms, slot, gpc, placedVia>>
    /\ UNCHANGED <<cfg, spawns, genErr>>
    /\ UNCHANGED mapVars

\* BedroomExhausted with the 0-based loop index in the error
BedroomExhausted_ZeroBased ==
    /\ gpc = "bedrooms"
    /\ slot < cfg.Bedrooms
    /\ attempts >= MaxAttempts
    /\ gpc' = "failed"
    /\ genErr' = [class |-> "bedroom", index |-> slot]
    /\ UNCHANGED <<cfg, spawns, bedrooms, slot, attempts, placedVia>>
    /\ UNCHANGED mapVars

BedroomExhausted ==
    /\ gpc = "bedrooms"
    /\ slot < cfg.Bedrooms
    /\ attempts >= MaxAttempts
    /\ gpc' = "failed"
    /\ genErr' = [class |-> "bedroom", index |-> slot + 1]
    /\ UNCHANGED <<cfg, spawns, bedrooms, slot, attempts, placedVia>>
    /\ UNCHANGED mapVars

\* Generate returns nil
GenerateDone ==
    /\ gpc = "bedrooms"
    /\ slot >= cfg.Bedrooms
    /\ gpc' = "done"
    /\ UNCHANGED <<cfg, spawns, bedrooms, slot, attempts, genErr, placedVia>>
    /\ UNCHANGED mapVars

\* createMapHandler, lines 1599-1602: Generate returned an error; the handler
\* answers 400 and returns before the INSERT
GenerateError ==
    /\ gpc = "failed"
    /\ gpc' = "error"
    /\ resp' = [resp EXCEPT ![1] = [op |-> "createMap", status |-> "error",
                                    epoch |-> 0, arg |-> << >>, cells |-> << >>]]
    /\ UNCHANGED <<mcfg, mapCircles, speedsCol, epoch, cells, otherCells, req, okEpochs>>
    /\ UNCHANGED <<cfg, spawns, bedrooms, slot, attempts, genErr, placedVia>>

\* createMapHandler, lines 1604-1626: the layout is inserted into maps and
\* returned
StoreMap ==
    /\ gpc = "done"
    /\ gpc' = "stored"
    /\ mcfg' = cfg
    /\ mapCircles' = getAllCircles(spawns, bedrooms)
    /\ cells' = [k \in 1..(cfg.Width * cfg.Height) |-> << >>]
    /\ resp' = [resp EXCEPT ![1] = [op |-> "createMap", status |-> "ok", epoch |-> 0,
                                    arg |-> getAllCircles(spawns, bedrooms), cells |-> << >>]]
    /\ UNCHANGED <<speedsCol, epoch, otherCells, req, okEpochs>>
    /\ UNCHANGED <<cfg, spawns, bedrooms, slot, attempts, genErr, placedVia>>

GenNext ==
    \/ RejectConfig
    \/ SeedCenter
    \/ TrySpawn
    \/ SpawnExhausted
    \/ SpawnsPlaced
    \/ TryBedroom
    \/ BedroomExhausted
    \/ GenerateDone
    \/ GenerateError
    \/ StoreMap

SpecGen == GenInit /\ [][GenNext]_vars

\* createMapHandler runs to its end: the handler's goroutine is not suspended
\* forever
SpecGenLive == GenInit /\ [][GenNext]_vars /\ WF_vars(GenNext)

\* The layout a successful Generate hands to createMapHandler
Layout == getAllCircles(spawns, bedrooms)

(***************************************************************************)
(* getCellType: the circles are tried in list order; the first circle      *)
(* whose center is (x, y) or whose disc holds (x, y) decides.              *)
(***************************************************************************)
IsCenterOf(x, y, circle) == x - circle.X = 0 /\ y - circle.Y = 0

InDisc(x, y, circle) ==
    Sq(x - circle.X) + Sq(y - circle.Y) <= Sq(circle.Radius)

getCellType(x, y, circles) ==
    LET hit == {i \in 1..Len(circles) :
                    IsCenterOf(x, y, circles[i]) \/ InDisc(x, y, circles[i])}
    IN  IF hit = {} THEN 0
        ELSE LET first == CHOOSE i \in hit : \A j \in hit : i <= j
             IN  IF IsCenterOf(x, y, circles[first]) THEN 2 ELSE 1

GridPoints(c) == (0..(c.Width - 1)) \X (0..(c.Height - 1))

(***************************************************************************)
(* All layouts Generate can return for config c (the same steps as the     *)
(* actions above, as a set).                                               *)
(***************************************************************************)
Accepted(c, sp, bd, radius) ==
    {nc \in {Circle(k.x, k.y, radius) :
                k \in {k \in Candidates(c, sp, bd, radius) : k.kind = "pos"}} :
        canPlaceCircle(c, sp, bd, nc)}

RECURSIVE FillBedrooms(_, _, _)
FillBedrooms(c, sp, bd) ==
    IF Len(bd) >= c.Bedrooms THEN {getAllCircles(sp, bd)}
    ELSE UNION {FillBedrooms(c, sp, Append(bd, nc)) :
                    nc \in Accepted(c, sp, bd, c.BedroomR)}

RECURSIVE FillSpawns(_, _)
FillSpawns(c, sp) ==
    IF Len(sp) >= c.Spawns THEN FillBedrooms(c, sp, << >>)
    ELSE UNION {FillSpawns(c, Append(sp, nc)) :
                    nc \in Accepted(c, sp, << >>, c.SpawnR)}

GenerateLayouts(c) ==
    LET center == Circle(c.Width \div 2, c.Height \div 2, c.SpawnR)
    IN  FillSpawns(c, IF c.Spawns > 0 /\ canPlaceCircle(c, << >>, << >>, center)
                      THEN <<center>> ELSE << >>)

(***************************************************************************)
(* Cells.  A cell map is the row-major sequence (y outer, x inner) of the  *)
(* token sequences of all grid points; an empty token sequence is a cell   *)
(* that is not materialized.  Both producers of cell maps                  *)
(* (generateDistribution, moveNumbers) emit cells in row-major order, and  *)
(* saveCellsToDB / loadCellsFromDB keep that order.                        *)
(***************************************************************************)
CellIndex(c, x, y) == y * c.Width + x + 1

PointX(c, k) == (k - 1) % c.Width

PointY(c, k) == (k - 1) \div c.Width

NoCells(c) == [k \in 1..(c.Width * c.Height) |-> << >>]

\* len(cells) == 0
CellsEmpty(cs) == \A k \in 1..Len(cs) : cs[k] = << >>

(***************************************************************************)
(* createProbabilitySelector.  A weight is a float64; the model writes a   *)
(* weight as its number of eighths (P(90) is 90.0), so p * 50 is exact in  *)
(* float64 and int() truncates it toward zero.  The selector slice is      *)
(* kept as the multiplicity of each bucket index idx in it; a draw         *)
(* selector[rand.Intn(len(selector))] is any bucket of multiplicity > 0.   *)
(***************************************************************************)
SelectorScale == 50

P(n) == n * 8

ScaledCount(p) ==
    IF p >= 0 THEN (p * SelectorScale) \div 8
    ELSE 0 - (((0 - p) * SelectorScale) \div 8)

createProbabilitySelector(probabilities) ==
    [idx \in 0..(Len(probabilities) - 1) |->
        IF ScaledCount(probabilities[idx + 1]) > 0
        THEN ScaledCount(probabilities[idx + 1]) ELSE 0]

SelectorBuckets(selector) == {idx \in DOMAIN selector : selector[idx] > 0}

(***************************************************************************)
(* generateDistribution: the set of cell maps it can return.               *)
(***************************************************************************)
\* The token sequences one cell of type cellType can get
CellFills(cellType, buckets) ==
    IF cellType = 2 THEN {<< >>}
    ELSE IF cellType = 1 THEN {<<v>> : v \in buckets}
    ELSE {<<v>> : v \in buckets} \cup {<<v, w>> : v \in buckets, w \in buckets}

RECURSIVE FillCells(_, _, _, _)
FillCells(c, circles, buckets, n) ==
    IF n = 0 THEN {<< >>}
    ELSE {Append(f, vals) :
            f \in FillCells(c, circles, buckets, n - 1),
            vals \in CellFills(getCellType(PointX(c, n), PointY(c, n), circles),
                               buckets)}

generateDistribution(c, circles, probabilities) ==
    LET buckets == SelectorBuckets(createProbabilitySelector(probabilities))
    IN  IF buckets = {} THEN {NoCells(c)}
        ELSE FillCells(c, circles, buckets, c.Width * c.Height)

\* []float64{90.0, 10.0} of newEpochHandler
DefaultProbabilities == <<P(90), P(10)>>

(***************************************************************************)
(* moveNumbers, one token at a time.                                       *)
(***************************************************************************)
\* getNeighbors with offsets up to 2 in each direction
getNeighbors_Reach2(x, y, c) ==
    {n \in {<<x + d[1], y + d[2]>> :
                d \in (((0 - 2)..2) \X ((0 - 2)..2)) \ {<<0, 0>>}} :
        n[1] >= 0 /\ n[1] < c.Width /\ n[2] >= 0 /\ n[2] < c.Height}

getNeighbors(x, y, c) ==
    {n \in {<<x + d[1], y + d[2]>> :
                d \in ({0 - 1, 0, 1} \X {0 - 1, 0, 1}) \ {<<0, 0>>}} :
        n[1] >= 0 /\ n[1] < c.Width /\ n[2] >= 0 /\ n[2] < c.Height}

\* The tokens of a cell map in processing order: cells row-major, the
\* tokens of a cell in stored order
RECURSIVE TokensFrom(_, _, _)
TokensFrom(c, cs, k) ==
    IF k > Len(cs) THEN << >>
    ELSE [i \in 1..Len(cs[k]) |->
            [x |-> PointX(c, k), y |-> PointY(c, k), val |-> cs[k][i]]]
         \o TokensFrom(c, cs, k + 1)

\* ResolveSpeed that clamps an out-of-range index to the last entry
ResolveSpeed_ClampLast(speeds, val) ==
    speeds[(IF val >= Len(speeds) THEN Len(speeds) - 1 ELSE val) + 1]

\* speeds[speedIdx] with speedIdx = val, or 0 when val >= len(speeds)
ResolveSpeed(speeds, val) ==
    speeds[(IF val >= Len(speeds) THEN 0 ELSE val) + 1]

\* MayMove with the comparison <= instead of <: a speed of 0 can move
MayMove_Always(speed) == speed >= 0

\* rand.Float64()*100 < speed for a draw in [0, 100): some draw moves iff
\* speed > 0, some draw stays iff speed < 100
MayMove(speed) == speed > 0

MayStay(speed) == speed < 100

\* canMove of the neighbour scan
canMove(neighborType, currentCount) ==
    IF neighborType = 0 THEN currentCount < 2
    ELSE IF neighborType = 1 THEN currentCount < 1
    ELSE FALSE

LegalNeighbors(c, circles, newState, tok) ==
    {n \in getNeighbors(tok.x, tok.y, c) :
        canMove(getCellType(n[1], n[2], circles),
                Len(newState[CellIndex(c, n[1], n[2])]))}

\* The cells token tok can be committed to.  The neighbours are scanned in a
\* uniformly shuffled order and the first legal one is taken, so every legal
\* neighbour can be the one taken; with no legal neighbour the token stays.
Destinations(c, circles, speeds, newState, tok) ==
    LET speed == ResolveSpeed(speeds, tok.val)
        legal == LegalNeighbors(c, circles, newState, tok)
    IN  (IF MayMove(speed)
         THEN (IF legal = {} THEN {<<tok.x, tok.y>>} ELSE legal)
         ELSE {})
        \cup (IF MayStay(speed) THEN {<<tok.x, tok.y>>} ELSE {})

\* Commit that assigns the token instead of appending it
Commit_Overwrite(c, newState, dest, val) ==
    [newState EXCEPT ![CellIndex(c, dest[1], dest[2])] = <<val>>]

\* newState[key] = append(newState[key], val)
Commit(c, newState, dest, val) ==
    [newState EXCEPT ![CellIndex(c, dest[1], dest[2])] = Append(@, val)]

(***************************************************************************)
(* The handlers.  p is the request slot serving the request.               *)
(***************************************************************************)
\* validateSpeeds without the upper limit of 100
validateSpeeds_NoUpperLimit(speeds) ==
    /\ ~(Len(speeds) = 0)
    /\ \A i \in 1..Len(speeds) : ~(speeds[i] < 0)

\* validateSpeeds: TRUE iff it returns nil
validateSpeeds(speeds) ==
    /\ ~(Len(speeds) = 0)
    /\ \A i \in 1..Len(speeds) : ~(speeds[i] < 0 \/ speeds[i] > 100)

\* json.Marshal(req.Speeds) as stored in maps.speeds
MarshalSpeeds(speeds) == [set |-> TRUE, json |-> speeds]

\* newEpochHandler, lines 1763-1768: the column is parsed unless it is '' or []
ParseSpeeds(col) == IF col.set /\ col.json # << >> THEN col.json ELSE << >>

\* The epoch written back without the increment
NextEpoch_NoIncrement(e) == e

\* epoch++
NextEpoch(e) == e + 1

\* setSpeedsHandler
setSpeedsHandler(p, speeds) ==
    /\ req[p].pc = "idle"
    /\ IF ~validateSpeeds(speeds)
       THEN /\ resp' = [resp EXCEPT ![p] = [op |-> "setSpeeds", status |-> "invalid",
                                            epoch |-> 0, arg |-> speeds, cells |-> << >>]]
            /\ UNCHANGED speedsCol
       ELSE /\ speedsCol' = MarshalSpeeds(speeds)
            /\ resp' = [resp EXCEPT ![p] = [op |-> "setSpeeds", status |-> "ok",
                                            epoch |-> 0, arg |-> speeds, cells |-> << >>]]
    /\ UNCHANGED <<mcfg, mapCircles, epoch, cells, req, okEpochs>>
    /\ UNCHANGED <<genVars, otherCells>>

\* saveCellsToDB without the DELETE: rows of cells that hold no token any
\* more stay stored
saveCellsToDB_NoDelete(cs) ==
    /\ cells' = [k \in 1..Len(cs) |-> IF cs[k] = << >> THEN cells[k] ELSE cs[k]]
    /\ UNCHANGED otherCells

\* saveCellsToDB, committed: DELETE FROM map_cells WHERE map_id = ?, then one
\* INSERT per cell that holds a token
saveCellsToDB(cs) ==
    /\ cells' = cs
    /\ UNCHANGED otherCells

\* distributeHandler that also resets the stored epoch
distributeHandler_ResetEpoch(p, probabilities) ==
    /\ req[p].pc = "idle"
    /\ \E cs \in generateDistribution(mcfg, mapCircles, probabilities) :
          /\ saveCellsToDB(cs)
          /\ resp' = [resp EXCEPT ![p] = [op |-> "distribute", status |-> "ok",
                                          epoch |-> 0, arg |-> probabilities,
                                          cells |-> cs]]
    /\ epoch' = 0
    /\ UNCHANGED <<mcfg, mapCircles, speedsCol, req, okEpochs>>
    /\ UNCHANGED genVars

\* distributeHandler
distributeHandler(p, probabilities) ==
    /\ req[p].pc = "idle"
    /\ \E cs \in generateDistribution(mcfg, mapCircles, probabilities) :
          /\ saveCellsToDB(cs)
          /\ resp' = [resp EXCEPT ![p] = [op |-> "distribute", status |-> "ok",
                                          epoch |-> 0, arg |-> probabilities,
                                          cells |-> cs]]
    /\ UNCHANGED <<mcfg, mapCircles, speedsCol, epoch, req, okEpochs>>
    /\ UNCHANGED genVars

\* newEpochHandler, lines 1738-1768: SELECT config, circles, speeds, epoch
Select(p) ==
    /\ req[p].pc = "idle"
    /\ req' = [req EXCEPT ![p] = [Idle EXCEPT !.pc = "load", !.epoch = epoch,
                                              !.speeds = ParseSpeeds(speedsCol)]]
    /\ UNCHANGED <<mcfg, mapCircles, speedsCol, epoch, cells, resp, okEpochs>>
    /\ UNCHANGED <<genVars, otherCells>>

\* Load that seeds the default distribution whatever is stored
Load_AlwaysSeed(p) ==
    /\ req[p].pc = "load"
    /\ \E cs \in generateDistribution(mcfg, mapCircles, DefaultProbabilities) :
          req' = [req EXCEPT ![p] =
                    IF Len(req[p].speeds) > 0 /\ TokensFrom(mcfg, cs, 1) # << >>
                    THEN [@ EXCEPT !.pc = "move", !.cells = cs,
                                   !.todo = TokensFrom(mcfg, cs, 1),
                                   !.newState = NoCells(mcfg)]
                    ELSE [@ EXCEPT !.pc = "update", !.cells = cs]]
    /\ UNCHANGED <<mcfg, mapCircles, speedsCol, epoch, cells, resp, okEpochs>>
    /\ UNCHANGED <<genVars, otherCells>>

\* newEpochHandler, lines 1770-1785: loadCellsFromDB, the default
\* distribution when no cells are stored, and the start of moveNumbers
Load(p) ==
    /\ req[p].pc = "load"
    /\ \E cs \in (IF CellsEmpty(cells)
                  THEN generateDistribution(mcfg, mapCircles, DefaultProbabilities)
                  ELSE {cells}) :
          req' = [req EXCEPT ![p] =
                    IF Len(req[p].speeds) > 0 /\ TokensFrom(mcfg, cs, 1) # << >>
                    THEN [@ EXCEPT !.pc = "move", !.cells = cs,
                                   !.todo = TokensFrom(mcfg, cs, 1),
                                   !.newState = NoCells(mcfg)]
                    ELSE [@ EXCEPT !.pc = "update", !.cells = cs]]
    /\ UNCHANGED <<mcfg, mapCircles, speedsCol, epoch, cells, resp, okEpochs>>
    /\ UNCHANGED <<genVars, otherCells>>

\* moveNumbers, lines 1417-1467: one token of the double loop
MoveToken(p) ==
    /\ req[p].pc = "move"
    /\ LET tok == Head(req[p].todo)
       IN  \E dest \in Destinations(mcfg, mapCircles, req[p].speeds,
                                    req[p].newState, tok) :
             req' = [req EXCEPT ![p] =
                       [@ EXCEPT !.newState = Commit(mcfg, req[p].newState, dest, tok.val),
                                 !.todo = Tail(req[p].todo),
                                 !.pc = IF Tail(req[p].todo) = << >>
                                        THEN "moved" ELSE "move"]]
    /\ UNCHANGED <<mcfg, mapCircles, speedsCol, epoch, cells, resp, okEpochs>>
    /\ UNCHANGED <<genVars, otherCells>>

\* moveNumbers, lines 1470-1480: the result replaces the handler's cells
MoveReturn(p) ==
    /\ req[p].pc = "moved"
    /\ req' = [req EXCEPT ![p] = [@ EXCEPT !.pc = "update", !.cells = req[p].newState,
                                           !.newState = << >>]]
    /\ UNCHANGED <<mcfg, mapCircles, speedsCol, epoch, cells, resp, okEpochs>>
    /\ UNCHANGED <<genVars, otherCells>>

\* newEpochHandler, lines 1787-1793: epoch++ and UPDATE maps SET epoch
UpdateEpoch(p) ==
    /\ req[p].pc = "update"
    /\ epoch' = NextEpoch(req[p].epoch)
    /\ req' = [req EXCEPT ![p] = [@ EXCEPT !.pc = "save",
                                           !.epoch = NextEpoch(req[p].epoch)]]
    /\ UNCHANGED <<mcfg, mapCircles, speedsCol, cells, resp, okEpochs>>
    /\ UNCHANGED <<genVars, otherCells>>

\* newEpochHandler, lines 1795-1808: saveCellsToDB and the response
Save(p) ==
    /\ req[p].pc = "save"
    /\ saveCellsToDB(req[p].cells)
    /\ resp' = [resp EXCEPT ![p] = [op |-> "newEpoch", status |-> "ok",
                                    epoch |-> req[p].epoch, arg |-> << >>,
                                    cells |-> req[p].cells]]
    /\ req' = [req EXCEPT ![p] = Idle]
    /\ okEpochs' = okEpochs + 1
    /\ UNCHANGED <<mcfg, mapCircles, speedsCol, epoch>>
    /\ UNCHANGED genVars

(***************************************************************************)
(* Specification Spec: one stored map, requests served one after another.  *)
(***************************************************************************)
Cfg(w, h, s, b, sr, br, g) ==
    [Width |-> w, Height |-> h, Spawns |-> s, Bedrooms |-> b,
     SpawnR |-> sr, BedroomR |-> br, MaxGap |-> g]

\* The maps of Spec: a 2x1 grid with no circle, a 3x1 grid with a spawn of
\* radius 0 at its center
MapConfigs == {Cfg(2, 1, 0, 0, 0, 0, 0), Cfg(3, 1, 1, 0, 0, 0, 0)}

\* Request bodies of POST /api/speeds
SpeedRequests ==
    {<< >>, <<0>>, <<100>>, <<50>>, <<0, 100>>, <<0 - 1>>, <<101>>, <<50, 101>>}

\* Request bodies of POST /api/distribute
ProbRequests == {<<P(100)>>, <<P(0)>>, <<P(90), P(10)>>, <<P(0), P(100)>>}

\* A state in which the map of config c is stored with speeds column col and
\* cells cs, at epoch 0, and no request is being served
MapStored(c, col, cs) ==
    /\ mcfg = c
    /\ speedsCol = col
    /\ epoch = 0
    /\ cells = cs
    /\ otherCells = OtherRows
    /\ req = [p \in Procs |-> Idle]
    /\ resp = [p \in Procs |-> NoResp]
    /\ okEpochs = 0
    /\ cfg = c
    /\ spawns = << >>
    /\ bedrooms = << >>
    /\ gpc = "stored"
    /\ slot = 0
    /\ attempts = 0
    /\ genErr = NoErr
    /\ placedVia = << >>

\* The state after createMapHandler stored a map
Init ==
    \E c \in MapConfigs :
        /\ mapCircles \in GenerateLayouts(c)
        /\ MapStored(c, NoSpeeds, NoCells(c))

SetSpeedsReq == \E speeds \in SpeedRequests : setSpeedsHandler(1, speeds)

DistributeReq == \E probabilities \in ProbRequests : distributeHandler(1, probabilities)

NewEpochReq == epoch < MaxEpoch /\ Select(1)

Next ==
    \/ SetSpeedsReq
    \/ DistributeReq
    \/ NewEpochReq
    \/ Load(1)
    \/ MoveToken(1)
    \/ MoveReturn(1)
    \/ UpdateEpoch(1)
    \/ Save(1)

Spec == Init /\ [][Next]_vars

(***************************************************************************)
(* Specification SpecStep: epoch advances on a 3x3 map with a spawn of     *)
(* radius 1 and a bedroom of radius 0, after POST /api/distribute with     *)
(* probabilities [100] and POST /api/speeds.                               *)
(***************************************************************************)
StepConfig == Cfg(3, 3, 1, 1, 1, 0, 0)

StepSpeeds == {<<100>>, <<50>>}

StepInit ==
    /\ mapCircles \in GenerateLayouts(StepConfig)
    /\ \E cs \in generateDistribution(StepConfig, mapCircles, <<P(100)>>),
          speeds \in StepSpeeds :
          MapStored(StepConfig, MarshalSpeeds(speeds), cs)

StepNewEpochReq == epoch < StepEpochs /\ Select(1)

StepNext ==
    \/ StepNewEpochReq
    \/ Load(1)
    \/ MoveToken(1)
    \/ MoveReturn(1)
    \/ UpdateEpoch(1)
    \/ Save(1)

SpecStep == StepInit /\ [][StepNext]_vars

(***************************************************************************)
(* Specification SpecConc: two newEpoch requests for the same map served   *)
(* concurrently (net/http serves each request in its own goroutine; the    *)
(* handler runs its statements on the shared database with no transaction  *)
(* around them), each database statement atomic.                           *)
(***************************************************************************)
ConcSpeeds == {NoSpeeds, MarshalSpeeds(<<100>>)}

ConcInit ==
    \E c \in MapConfigs, col \in ConcSpeeds :
        /\ mapCircles \in GenerateLayouts(c)
        /\ MapStored(c, col, NoCells(c))

\* Each request slot serves one newEpoch request
ConcNewEpochReq(p) == resp[p].op = "none" /\ Select(p)

ConcNext ==
    \E p \in Procs :
        \/ ConcNewEpochReq(p)
        \/ Load(p)
        \/ MoveToken(p)
        \/ MoveReturn(p)
        \/ UpdateEpoch(p)
        \/ Save(p)

SpecConc == ConcInit /\ [][ConcNext]_vars

(***************************************************************************)
(* Specification SpecAlias: epoch advances on the 2x1 map with no circle,  *)
(* after POST /api/distribute with three buckets and POST /api/speeds with *)
(* a vector of one or two entries.                                         *)
(***************************************************************************)
AliasConfig == Cfg(2, 1, 0, 0, 0, 0, 0)

AliasProbs == {<<P(0), P(50), P(50)>>, <<P(50), P(0), P(50)>>}

AliasSpeeds == {<<0, 100>>, <<100>>, <<100, 0>>, <<0>>}

AliasInit ==
    /\ mapCircles \in GenerateLayouts(AliasConfig)
    /\ \E probabilities \in AliasProbs, speeds \in AliasSpeeds :
          \E cs \in generateDistribution(AliasConfig, mapCircles, probabilities) :
              MapStored(AliasConfig, MarshalSpeeds(speeds), cs)

AliasNewEpochReq == epoch < AliasEpochs /\ Select(1)

AliasNext ==
    \/ AliasNewEpochReq
    \/ Load(1)
    \/ MoveToken(1)
    \/ MoveReturn(1)
    \/ UpdateEpoch(1)
    \/ Save(1)

SpecAlias == AliasInit /\ [][AliasNext]_vars

(***************************************************************************)
(* Specification SpecInPlace: moveNumbers of src/unnamed/part_003 (and     *)
(* part_004, the same statements), which updates one map `state` in place: *)
(* the neighbours are scanned in the order getNeighbors lists them, and    *)
(* after the tokens of a cell are processed the cell is assigned its       *)
(* remaining tokens.  Init is the call of moveNumbers on an input cell     *)
(* list (row-major, cells without tokens left out) with a non-empty speeds *)
(* vector.                                                                 *)
(***************************************************************************)
\* directions of getNeighbors, in source order
Directions ==
    << <<0 - 1, 0 - 1>>, <<0 - 1, 0>>, <<0 - 1, 1>>, <<0, 0 - 1>>,
       <<0, 1>>, <<1, 0 - 1>>, <<1, 0>>, <<1, 1>> >>

\* getNeighbors as the slice it returns
NeighborSeq(x, y, c) ==
    SelectSeq([i \in 1..Len(Directions) |->
                  <<x + Directions[i][1], y + Directions[i][2]>>],
              LAMBDA n : n[1] >= 0 /\ n[1] < c.Width /\ n[2] >= 0 /\ n[2] < c.Height)

\* The neighbours the scan of the in-place moveNumbers can move to, in order
InPlaceLegal(c, circles, state, tok) ==
    SelectSeq(NeighborSeq(tok.x, tok.y, c),
              LAMBDA n : canMove(getCellType(n[1], n[2], circles),
                                 Len(state[CellIndex(c, n[1], n[2])])))

\* Token sequences a cell of the input can hold
InPlaceVals == {<< >>, <<0>>, <<1>>, <<0, 1>>}

InPlaceSpeeds == {<<100>>, <<50>>, <<0, 100>>}

InPlaceInit ==
    \E c \in MapConfigs, speeds \in InPlaceSpeeds :
        /\ mapCircles \in GenerateLayouts(c)
        /\ mcfg = c
        /\ \E cs \in [1..(c.Width * c.Height) -> InPlaceVals] :
              /\ cells = cs
              /\ req = [p \in Procs |->
                          IF p = 1
                          THEN [pc |-> IF TokensFrom(c, cs, 1) = << >>
                                       THEN "ipmoved" ELSE "ipmove",
                                speeds |-> speeds, cells |-> cs,
                                todo |-> TokensFrom(c, cs, 1),
                                state |-> cs, remaining |-> << >>]
                          ELSE Idle]
        /\ speedsCol = MarshalSpeeds(speeds)
        /\ epoch = 0
        /\ otherCells = OtherRows
        /\ resp = [p \in Procs |-> NoResp]
        /\ okEpochs = 0
        /\ cfg = c
        /\ spawns = << >>
        /\ bedrooms = << >>
        /\ gpc = "stored"
        /\ slot = 0
        /\ attempts = 0
        /\ genErr = NoErr
        /\ placedVia = << >>

\* part_003, lines 289-329: one token of the double loop; after the last
\* token of a cell, state[key] = remaining
InPlaceToken(p) ==
    /\ req[p].pc = "ipmove"
    /\ LET r == req[p]
           tok == Head(r.todo)
           speed == ResolveSpeed(r.speeds, tok.val)
           legal == InPlaceLegal(mcfg, mapCircles, r.state, tok)
           rest == Tail(r.todo)
           lastOfCell == rest = << >> \/ Head(rest).x # tok.x \/ Head(rest).y # tok.y
       IN  \E attempt \in {a \in BOOLEAN : IF a THEN MayMove(speed) ELSE MayStay(speed)} :
             LET moved == attempt /\ legal # << >>
                 st1 == IF moved THEN Commit(mcfg, r.state, Head(legal), tok.val)
                        ELSE r.state
                 rem1 == IF moved THEN r.remaining ELSE Append(r.remaining, tok.val)
             IN  req' = [req EXCEPT ![p] =
                           [r EXCEPT
                              !.state = IF lastOfCell
                                        THEN [st1 EXCEPT ![CellIndex(mcfg, tok.x, tok.y)] = rem1]
                                        ELSE st1,
                              !.remaining = IF lastOfCell THEN << >> ELSE rem1,
                              !.todo = rest,
                              !.pc = IF rest = << >> THEN "ipmoved" ELSE "ipmove"]]
    /\ UNCHANGED <<mcfg, mapCircles, speedsCol, epoch, cells, resp, okEpochs>>
    /\ UNCHANGED <<genVars, otherCells>>

\* part_003, lines 331-340: newCells is built from state and returned
InPlaceReturn(p) ==
    /\ req[p].pc = "ipmoved"
    /\ req' = [req EXCEPT ![p] = [@ EXCEPT !.pc = "ipdone"]]
    /\ resp' = [resp EXCEPT ![p] = [op |-> "moveNumbers", status |-> "ok",
                                    epoch |-> 0, arg |-> req[p].state, cells |-> << >>]]
    /\ UNCHANGED <<mcfg, mapCircles, speedsCol, epoch, cells, okEpochs>>
    /\ UNCHANGED <<genVars, otherCells>>

InPlaceNext ==
    \/ InPlaceToken(1)
    \/ InPlaceReturn(1)

SpecInPlace == InPlaceInit /\ [][InPlaceNext]_vars

(***************************************************************************)
(* Specification SpecSelector: POST /api/distribute on the 2x1 map with    *)
(* fractional weights.  A weight is written as its number of eighths       *)
(* (3 is 0.375), so that p * 50 is exact in float64.                       *)
(***************************************************************************)
FracWeights == {0, 1, 2, 3, 8}

FracProbs ==
    {<<a>> : a \in FracWeights} \cup {<<a, b>> : a \in FracWeights, b \in FracWeights}

SelectorInit ==
    /\ mapCircles \in GenerateLayouts(AliasConfig)
    /\ MapStored(AliasConfig, NoSpeeds, NoCells(AliasConfig))

SelectorReq == \E probabilities \in FracProbs : distributeHandler(1, probabilities)

SelectorNext == SelectorReq

SpecSelector == SelectorInit /\ [][SelectorNext]_vars

(***************************************************************************)
(* Specification SpecFault: requests served one after another on a         *)
(* database whose statements can fail.  A failed statement changes         *)
(* nothing; saveCellsToDB runs in a transaction that is rolled back when   *)
(* one of its statements fails.                                            *)
(***************************************************************************)
ErrorResp(op) == [op |-> op, status |-> "error", epoch |-> 0, arg |-> << >>, cells |-> << >>]

\* newEpochHandler, lines 1770-1774: loadCellsFromDB fails
LoadFail(p) ==
    /\ req[p].pc = "load"
    /\ req' = [req EXCEPT ![p] = Idle]
    /\ resp' = [resp EXCEPT ![p] = ErrorResp("newEpoch")]
    /\ UNCHANGED <<mcfg, mapCircles, speedsCol, epoch, cells, okEpochs>>
    /\ UNCHANGED <<genVars, otherCells>>

\* newEpochHandler, lines 1788-1793: the UPDATE of the epoch fails
UpdateFail(p) ==
    /\ req[p].pc = "update"
    /\ req' = [req EXCEPT ![p] = Idle]
    /\ resp' = [resp EXCEPT ![p] = ErrorResp("newEpoch")]
    /\ UNCHANGED <<mcfg, mapCircles, speedsCol, epoch, cells, okEpochs>>
    /\ UNCHANGED <<genVars, otherCells>>

\* newEpochHandler, lines 1795-1799: saveCellsToDB fails after the epoch
\* was written; its transaction is rolled back
SaveFail(p) ==
    /\ req[p].pc = "save"
    /\ req' = [req EXCEPT ![p] = Idle]
    /\ resp' = [resp EXCEPT ![p] = ErrorResp("newEpoch")]
    /\ UNCHANGED <<mcfg, mapCircles, speedsCol, epoch, cells, okEpochs>>
    /\ UNCHANGED <<genVars, otherCells>>

\* distributeHandler, lines 1670-1674: saveCellsToDB fails
DistributeFail(p) ==
    /\ req[p].pc = "idle"
    /\ resp' = [resp EXCEPT ![p] = ErrorResp("distribute")]
    /\ UNCHANGED <<mcfg, mapCircles, speedsCol, epoch, cells, req, okEpochs>>
    /\ UNCHANGED <<genVars, otherCells>>

FaultProbs == {<<P(100)>>, <<P(50), P(50)>>}

FaultSpeeds == {<<100>>, <<100, 0>>}

FaultInit ==
    \E c \in MapConfigs, speeds \in FaultSpeeds :
        /\ mapCircles \in GenerateLayouts(c)
        /\ MapStored(c, MarshalSpeeds(speeds), NoCells(c))

FaultDistributeReq ==
    \E probabilities \in FaultProbs : distributeHandler(1, probabilities)

FaultNext ==
    \/ FaultDistributeReq
    \/ DistributeFail(1)
    \/ NewEpochReq
    \/ Load(1)
    \/ LoadFail(1)
    \/ MoveToken(1)
    \/ MoveReturn(1)
    \/ UpdateEpoch(1)
    \/ UpdateFail(1)
    \/ Save(1)
    \/ SaveFail(1)

SpecFault == FaultInit /\ [][FaultNext]_vars

(***************************************************************************)
(* Specification SpecStrict: Generate of src/unnamed/part_000, which draws *)
(* every position uniformly from the grid and, after all circles are       *)
(* placed, verifies the nearest-neighbour distance of every circle.        *)
(* mg.Circles is spawns \o bedrooms.  The retry budget 10000 is            *)
(* MaxAttempts.                                                            *)
(***************************************************************************)
\* mapHandler, lines 300-357: the parameters it accepts
StrictConfigs ==
    {c \in [Width : 1..MaxWidth, Height : 1..MaxHeight,
            Spawns : 0..MaxCircles, Bedrooms : 0..MaxCircles,
            SpawnR : 1..MaxRadius, BedroomR : 1..MaxRadius,
            MaxGap : 1..MaxGapBound] :
        c.Spawns + c.Bedrooms <= MaxCircles}

circlesIntersect(c1, c2) ==
    SqrtLess(Sq(c1.X - c2.X) + Sq(c1.Y - c2.Y), c1.Radius + c2.Radius)

isCircleInBounds(c, nc) ==
    /\ nc.X - nc.Radius >= 0 /\ nc.X + nc.Radius < c.Width
    /\ nc.Y - nc.Radius >= 0 /\ nc.Y + nc.Radius < c.Height

\* The square of minDistance for circle i: the least squared center distance
\* to another circle of the list
MinDistance2(all, i) ==
    LET d2(j) == Sq(all[i].X - all[j].X) + Sq(all[i].Y - all[j].Y)
        others == (1..Len(all)) \ {i}
    IN  CHOOSE m \in {d2(j) : j \in others} : \A j \in others : m <= d2(j)

\* The gap test that accepts every distance
GapExceeded_Never(all, i, g) == FALSE

\* minDistance > float64(mg.MaxGap), for g >= 0: sqrt(m) > g iff m > g*g
GapExceeded(all, i, g) == MinDistance2(all, i) > Sq(g)

StrictInit ==
    /\ cfg \in StrictConfigs
    /\ spawns = << >>
    /\ bedrooms = << >>
    /\ gpc = "request"
    /\ slot = 0
    /\ attempts = 0
    /\ genErr = NoErr
    /\ placedVia = << >>
    /\ MapUnused

\* lines 75-81: nothing to place, Generate returns nil
StrictNoCircles ==
    /\ gpc = "request"
    /\ cfg.Spawns + cfg.Bedrooms = 0
    /\ gpc' = "done"
    /\ UNCHANGED <<cfg, spawns, bedrooms, slot, attempts, genErr, placedVia>>
    /\ UNCHANGED mapVars

StrictStart ==
    /\ gpc = "request"
    /\ cfg.Spawns + cfg.Bedrooms # 0
    /\ gpc' = "spawns"
    /\ UNCHANGED <<cfg, spawns, bedrooms, slot, attempts, genErr, placedVia>>
    /\ UNCHANGED mapVars

\* lines 86-110: one attempt of the spawn loop
StrictTrySpawn ==
    /\ gpc = "spawns"
    /\ slot < cfg.Spawns
    /\ attempts < MaxAttempts
    /\ \E x \in 0..(cfg.Width - 1), y \in 0..(cfg.Height - 1) :
          LET circle == Circle(x, y, cfg.SpawnR)
              all == spawns \o bedrooms
          IN  IF /\ isCircleInBounds(cfg, circle)
                 /\ \A k \in 1..Len(all) : ~circlesIntersect(circle, all[k])
              THEN /\ spawns' = Append(spawns, circle)
                   /\ slot' = slot + 1
                   /\ attempts' = 0
              ELSE /\ attempts' = attempts + 1
                   /\ UNCHANGED <<spawns, slot>>
    /\ UNCHANGED <<cfg, bedrooms, gpc, genErr, placedVia>>
    /\ UNCHANGED mapVars

\* lines 112-114
StrictSpawnExhausted ==
    /\ gpc = "spawns"
    /\ slot < cfg.Spawns
    /\ attempts >= MaxAttempts
    /\ gpc' = "failed"
    /\ genErr' = [class |-> "spawn", index |-> slot + 1]
    /\ UNCHANGED <<cfg, spawns, bedrooms, slot, attempts, placedVia>>
    /\ UNCHANGED mapVars

StrictSpawnsPlaced ==
    /\ gpc = "spawns"
    /\ slot >= cfg.Spawns
    /\ gpc' = "bedrooms"
    /\ slot' = 0
    /\ attempts' = 0
    /\ UNCHANGED <<cfg, spawns, bedrooms, genErr, placedVia>>
    /\ UNCHANGED mapVars

\* lines 121-145: one attempt of the bedroom loop
StrictTryBedroom ==
    /\ gpc = "bedrooms"
    /\ slot < cfg.Bedrooms
    /\ attempts < MaxAttempts
    /\ \E x \in 0..(cfg.Width - 1), y \in 0..(cfg.Height - 1) :
          LET circle == Circle(x, y, cfg.BedroomR)
              all == spawns \o bedrooms
          IN  IF /\ isCircleInBounds(cfg, circle)
                 /\ \A k \in 1..Len(all) : ~circlesIntersect(circle, all[k])
              THEN /\ bedrooms' = Append(bedrooms, circle)
                   /\ slot' = slot + 1
                   /\ attempts' = 0
              ELSE /\ attempts' = attempts + 1
                   /\ UNCHANGED <<bedrooms, slot>>
    /\ UNCHANGED <<cfg, spawns, gpc, genErr, placedVia>>
    /\ UNCHANGED mapVars

\* lines 147-149
StrictBedroomExhausted ==
    /\ gpc = "bedrooms"
    /\ slot < cfg.Bedrooms
    /\ attempts >= MaxAttempts
    /\ gpc' = "failed"
    /\ genErr' = [class |-> "bedroom", index |-> slot + 1]
    /\ UNCHANGED <<cfg, spawns, bedrooms, slot, attempts, placedVia>>
    /\ UNCHANGED mapVars

\* lines 153-182: the nearest-neighbour check of every circle, in list order;
\* the first circle that fails it makes Generate return an error
StrictGapCheck ==
    /\ gpc = "bedrooms"
    /\ slot >= cfg.Bedrooms
    /\ LET all == spawns \o bedrooms
           far == {i \in 1..Len(all) : GapExceeded(all, i, cfg.MaxGap)}
       IN  IF Len(all) > 1 /\ far # {}
           THEN /\ gpc' = "failed"
                /\ genErr' = [class |-> "gap",
                              index |-> CHOOSE i \in far : \A k \in far : i <= k]
           ELSE /\ gpc' = "done"
                /\ UNCHANGED genErr
    /\ UNCHANGED <<cfg, spawns, bedrooms, slot, attempts, placedVia>>
    /\ UNCHANGED mapVars

StrictNext ==
    \/ StrictNoCircles
    \/ StrictStart
    \/ StrictTrySpawn
    \/ StrictSpawnExhausted
    \/ StrictSpawnsPlaced
    \/ StrictTryBedroom
    \/ StrictBedroomExhausted
    \/ StrictGapCheck

SpecStrict == StrictInit /\ [][StrictNext]_vars

(***************************************************************************)
(* Claims about placement and classification (specification SpecGen).      *)
(***************************************************************************)

\* C3: whenever Generate returns success, every two distinct circles of the
\* returned layout satisfy dx*dx + dy*dy >= (r1 + r2)^2.
C3_NoOverlap ==
    gpc = "done" =>
        \A i, j \in 1..Len(Layout) :
            i < j =>
                Sq(Layout[i].X - Layout[j].X) + Sq(Layout[i].Y - Layout[j].Y)
                    >= Sq(Layout[i].Radius + Layout[j].Radius)

\* A successful layout with two circles of positive radius that touch
\* (distance = sum of radii), the second drawn near the first.
C3_Witness ==
    /\ gpc = "done"
    /\ \E i, j \in 1..Len(Layout) :
          /\ i < j
          /\ Layout[i].Radius > 0 /\ Layout[j].Radius > 0
          /\ placedVia[j] = "nearby"
          /\ Sq(Layout[i].X - Layout[j].X) + Sq(Layout[i].Y - Layout[j].Y)
                = Sq(Layout[i].Radius + Layout[j].Radius)

\* C4: whenever Generate returns success, every returned circle lies fully
\* inside the grid: x-r >= 0, x+r < width, y-r >= 0, y+r < height.
C4_InBounds ==
    gpc = "done" =>
        \A i \in 1..Len(Layout) :
            /\ Layout[i].X - Layout[i].Radius >= 0
            /\ Layout[i].X + Layout[i].Radius < cfg.Width
            /\ Layout[i].Y - Layout[i].Radius >= 0
            /\ Layout[i].Y + Layout[i].Radius < cfg.Height

\* A successful layout holding the center-seeded spawn and a circle whose
\* position came from the uniform fallback of generateNearbyPosition.
C4_Witness ==
    /\ gpc = "done"
    /\ \E i, j \in 1..Len(placedVia) :
          placedVia[i] = "center" /\ placedVia[j] = "fallback"

\* C7: for every grid point and every layout Generate returns, getCellType
\* is one of 0, 1, 2 and it is 2 (Center) iff the point is the center of
\* some circle of the layout.
C7_ClassifierExclusive ==
    gpc = "done" =>
        \A p \in GridPoints(cfg) :
            /\ getCellType(p[1], p[2], Layout) \in {0, 1, 2}
            /\ getCellType(p[1], p[2], Layout) = 2
                  <=> \E i \in 1..Len(Layout) : IsCenterOf(p[1], p[2], Layout[i])

(***************************************************************************)
(* Claims about the stored map and the handlers (specification Spec).      *)
(***************************************************************************)
\* Number of tokens of index v in a sequence of token sequences
RECURSIVE CountIn(_, _)
CountIn(cs, v) ==
    IF cs = << >> THEN 0
    ELSE Cardinality({i \in 1..Len(Head(cs)) : Head(cs)[i] = v}) + CountIn(Tail(cs), v)

ValuesIn(cs) == UNION {{cs[k][i] : i \in 1..Len(cs[k])} : k \in 1..Len(cs)}

TodoCount(todo, v) == Cardinality({i \in 1..Len(todo) : todo[i].val = v})

\* C1: in every stored cell map (a distribution followed by any number of
\* epoch advances) no Interior cell holds more than 1 token and no Empty
\* cell holds more than 2.
C1_DiffusionCapacity ==
    \A k \in 1..Len(cells) :
        LET t == getCellType(PointX(mcfg, k), PointY(mcfg, k), mapCircles)
        IN  /\ t = 1 => Len(cells[k]) <= 1
            /\ t = 0 => Len(cells[k]) <= 2

\* C2: moveNumbers returns a cell map with the same multiset of token
\* indices as its input; while it runs, every token of the input is either
\* still to be processed or committed to exactly one next-epoch cell.
C2_Conservation ==
    \A p \in Procs :
        req[p].pc \in {"move", "moved"} =>
            \A v \in ValuesIn(req[p].cells) \cup ValuesIn(req[p].newState) :
                CountIn(req[p].newState, v) + TodoCount(req[p].todo, v)
                    = CountIn(req[p].cells, v)

\* moveNumbers has returned a cell map that differs from its input and
\* holds tokens of two indices.
C2_Witness ==
    /\ req[1].pc = "moved"
    /\ req[1].newState # req[1].cells
    /\ Cardinality(ValuesIn(req[1].cells)) >= 2

\* C5: between requests the stored epoch equals the number of successful
\* newEpoch calls since the map was created, and a newEpoch response
\* carries the stored epoch; while a call has written the epoch and not yet
\* answered, the stored epoch is one more than the number of answered calls.
C5_EpochMonotonic ==
    /\ req[1].pc = "idle" => epoch = okEpochs
    /\ req[1].pc = "save" => epoch = okEpochs + 1
    /\ (req[1].pc = "idle" /\ resp[1].op = "newEpoch") => resp[1].epoch = epoch

\* Two newEpoch calls have succeeded, the last one with no speeds set.
C5_Witness ==
    /\ req[1].pc = "idle"
    /\ okEpochs >= 2
    /\ resp[1].op = "newEpoch"
    /\ ~speedsCol.set

\* C6: when two concurrent newEpoch requests for the same map have both
\* been answered, the stored epoch has increased by exactly 2 and the two
\* responses carry different epochs.
C6_NoLostUpdate ==
    (resp[1].op = "newEpoch" /\ resp[2].op = "newEpoch") =>
        epoch = 2 /\ resp[1].epoch # resp[2].epoch

\* C8: after distribute, every Interior cell has exactly 1 token, every
\* Empty cell has 1 or 2 tokens, and every token is a bucket of the selector.
C8_DistributionCapacity ==
    resp[1].op = "distribute" =>
        \A k \in 1..Len(cells) :
            LET t == getCellType(PointX(mcfg, k), PointY(mcfg, k), mapCircles)
            IN  /\ t = 1 => Len(cells[k]) = 1
                /\ t = 0 => Len(cells[k]) \in {1, 2}
                /\ \A i \in 1..Len(cells[k]) :
                      /\ cells[k][i] < Len(resp[1].arg)
                      /\ ScaledCount(resp[1].arg[cells[k][i] + 1]) > 0

\* C9: while moveNumbers runs and when it returns, a cell that is the exact
\* center of some circle of the map holds in the next-epoch map only tokens
\* it held in the input map.
C9_CenterNeverDestination ==
    req[1].pc \in {"move", "moved"} =>
        \A k \in 1..Len(req[1].newState) :
            (\E i \in 1..Len(mapCircles) :
                IsCenterOf(PointX(mcfg, k), PointY(mcfg, k), mapCircles[i]))
            => \A v \in ValuesIn(<<req[1].newState[k]>>) :
                  CountIn(<<req[1].newState[k]>>, v) <= CountIn(<<req[1].cells[k]>>, v)

\* C10: setSpeeds answers with a validation error and leaves the stored
\* speeds unchanged when the vector is empty or has an entry < 0 or > 100;
\* otherwise the stored speeds become exactly the given vector.
C10_SetSpeedsValidation ==
    [][\A speeds \in SpeedRequests :
          setSpeedsHandler(1, speeds) =>
              IF Len(speeds) = 0 \/ \E i \in 1..Len(speeds) : speeds[i] < 0 \/ speeds[i] > 100
              THEN resp'[1].status = "invalid" /\ speedsCol' = speedsCol
              ELSE resp'[1].status = "ok" /\ ParseSpeeds(speedsCol') = speeds]_vars

\* An invalid setSpeeds request was answered after speeds had been stored.
C10_Witness ==
    /\ resp[1].op = "setSpeeds"
    /\ resp[1].status = "invalid"
    /\ speedsCol.set

(***************************************************************************)
(* Further claims about the handlers (specification Spec).                 *)
(***************************************************************************)
\* Every entry of the speeds vector is 0 (the empty vector included)
NoMovement(speeds) == \A i \in 1..Len(speeds) : speeds[i] = 0

\* C11: in a newEpoch call whose speeds vector is unset/empty or all 0,
\* moveNumbers returns its input cell map, the handler stores the cell map it
\* loaded (the stored map stays as it is; when none was stored, the default
\* seeding is what is stored), and the written epoch is the read epoch + 1.
C11_NoMovementIdentity ==
    [][NoMovement(req[1].speeds) =>
          /\ MoveReturn(1) => req'[1].cells = req[1].cells
          /\ UpdateEpoch(1) => epoch' = epoch + 1
          /\ Save(1) =>
                /\ resp'[1].epoch = epoch
                /\ IF CellsEmpty(cells)
                   THEN cells' \in generateDistribution(mcfg, mapCircles,
                                                        DefaultProbabilities)
                   ELSE cells' = cells]_vars

\* The second epoch advance with speeds [0] on a stored map that holds a
\* token of index 1 (out of range of the speeds vector): moveNumbers has
\* processed every token.
C11_Witness ==
    /\ req[1].pc = "moved"
    /\ req[1].speeds = <<0>>
    /\ okEpochs >= 1
    /\ 1 \in ValuesIn(req[1].cells)
    /\ ~CellsEmpty(cells)

(***************************************************************************)
(* Further claims about placement (specification SpecGen).                 *)
(***************************************************************************)
\* C12: when a slot's retry budget is used up, Generate returns an error with
\* the slot's class and 1-based index, having attempted no later slot
\* (a failed spawn: no bedroom placed; the placed circles are exactly the
\* slots before the failed one); the only step that follows is the handler's
\* error answer, which carries no circles, and no map is ever stored.
C12_ExhaustionTerminal ==
    /\ [](gpc \in {"failed", "error"} =>
            /\ genErr.class \in {"spawn", "bedroom"}
            /\ genErr.class = "spawn" =>
                  /\ genErr.index = Len(spawns) + 1
                  /\ genErr.index <= cfg.Spawns
                  /\ bedrooms = << >>
            /\ genErr.class = "bedroom" =>
                  /\ Len(spawns) = cfg.Spawns
                  /\ genErr.index = Len(bedrooms) + 1
                  /\ genErr.index <= cfg.Bedrooms
            /\ mcfg = << >> /\ mapCircles = << >>
            /\ gpc = "error" => resp[1].status = "error" /\ resp[1].arg = << >>)
    /\ [][/\ gpc = "failed" => gpc' = "error"
          /\ gpc # "error"]_vars

\* The second of two slots could not be placed: Generate failed while its
\* generator held a placed circle, and the handler has answered.
C12_Witness ==
    /\ gpc = "error"
    /\ genErr.index >= 2
    /\ Len(spawns) + Len(bedrooms) >= 1

\* C13: for every config validateConfig accepts, Generate ends with a layout
\* or a placement error; it never panics (rand.Intn with an argument <= 0 in
\* a uniform-position draw).
C13_NoAbnormalAbort == gpc # "panic"

\* Center distance d of circle nc to circle base satisfies
\* base.Radius + nc.Radius <= d < base.Radius + nc.Radius + MaxGap + sqrt(2):
\* truncating both coordinates of a sampled point moves it by less than
\* sqrt(2).  (d < m + sqrt(2) iff d*d - m*m - 2 < 2*sqrt(2)*m.)
WithinGap(c, base, nc) ==
    LET d2 == Sq(nc.X - base.X) + Sq(nc.Y - base.Y)
        min == base.Radius + nc.Radius
        max == min + c.MaxGap
        over == d2 - Sq(max) - 2
    IN  /\ d2 >= Sq(min)
        /\ over <= 0 \/ Sq(over) < 8 * Sq(max)

\* C14: every circle accepted while a circle already existed is within
\* maxGap (up to truncation) of some circle placed before it; the layout
\* lists the circles in order of acceptance.
C14_MaxGapProximity ==
    \A j \in 2..Len(Layout) :
        \E i \in 1..(j - 1) : WithinGap(cfg, Layout[i], Layout[j])

\* C15: when spawn_count >= 1 and the circle of radius spawn_radius at
\* (width/2, height/2) lies inside the grid, a successful Generate returns
\* that circle, tagged spawn, as its first circle; with one spawn and no
\* bedroom Generate then never fails and returns exactly that circle.
C15_CenterSeeding ==
    LET center == [X |-> cfg.Width \div 2, Y |-> cfg.Height \div 2,
                   Radius |-> cfg.SpawnR, Type |-> "spawn"]
        fits == validateConfig(cfg) /\ cfg.Spawns >= 1 /\ ~OutOfBounds(cfg, center)
    IN  fits =>
          /\ gpc \in {"done", "stored"} => Len(Layout) >= 1 /\ Layout[1] = center
          /\ (cfg.Spawns = 1 /\ cfg.Bedrooms = 0) =>
                /\ gpc \notin {"failed", "error", "panic"}
                /\ gpc \in {"done", "stored"} => Layout = <<center>>

\* Generate succeeded on the 5x5 grid with one spawn of radius 1 and returned
\* the spawn at (2,2).
C15_Witness ==
    /\ gpc = "done"
    /\ cfg \in ScenarioConfigs
    /\ Layout = <<[X |-> 2, Y |-> 2, Radius |-> 1, Type |-> "spawn"]>>

\* C16: after a distribute whose weights all scale to zero selector entries,
\* every Interior cell holds exactly one token, every Empty cell one or two,
\* and every token is index 0 (the distribution of the single bucket 0).
C16_DegenerateSelector ==
    (/\ resp[1].op = "distribute"
     /\ \A i \in 1..Len(resp[1].arg) : ScaledCount(resp[1].arg[i]) <= 0)
    => cells \in FillCells(mcfg, mapCircles, {0}, mcfg.Width * mcfg.Height)

\* C17: whenever Generate returns success, the layout is exactly
\* spawn_count circles tagged spawn of radius spawn_radius followed by
\* exactly bedroom_count circles tagged bedroom of radius bedroom_radius, and
\* that layout is what createMapHandler stores.
C17_LayoutComplete ==
    gpc \in {"done", "stored"} =>
        /\ Len(Layout) = cfg.Spawns + cfg.Bedrooms
        /\ \A i \in 1..Len(Layout) :
              IF i <= cfg.Spawns
              THEN Layout[i].Type = "spawn" /\ Layout[i].Radius = cfg.SpawnR
              ELSE Layout[i].Type = "bedroom" /\ Layout[i].Radius = cfg.BedroomR
        /\ gpc = "stored" => mapCircles = Layout

\* A stored layout of one spawn and one bedroom of different radii
C17_Witness ==
    /\ gpc = "stored"
    /\ cfg.Spawns = 1 /\ cfg.Bedrooms = 1
    /\ cfg.SpawnR # cfg.BedroomR

(***************************************************************************)
(* Termination of placement (specification SpecGenLive).                   *)
(***************************************************************************)
\* C18: Generate eventually finishes (rejected config, layout, placement
\* error, or the panic of an undefined draw); a slot sees at most
\* MaxAttempts rejected candidates, every retry either completes the slot or
\* counts one more attempt, and the slot index never goes back within a loop.
C18_PlacementTerminates ==
    /\ <>(gpc \in {"rejected", "done", "failed", "panic"})
    /\ [](attempts <= MaxAttempts)
    /\ [][(gpc \in {"spawns", "bedrooms"} /\ gpc' = gpc) =>
            \/ slot' = slot + 1 /\ attempts' = 0
            \/ slot' = slot /\ attempts' = attempts + 1]_vars

\* The second bedroom slot is being retried after a rejected candidate.
C18_Witness ==
    /\ gpc = "bedrooms"
    /\ slot >= 1
    /\ attempts >= 1

(***************************************************************************)
(* Continuity of the stored cells (specification Spec).                    *)
(***************************************************************************)
\* C19: a newEpoch call consumes exactly the stored cell map, which only
\* distribute and newEpoch write; only when no cells are stored does it seed
\* a distribution of the default vector {90, 10}, whose tokens are 0 or 1;
\* and a newEpoch on stored cells stores a cell map with the same multiset
\* of token indices.
C19_EpochContinuity ==
    [][/\ Load(1) =>
             IF CellsEmpty(cells)
             THEN /\ req'[1].cells \in generateDistribution(mcfg, mapCircles,
                                                            <<P(90), P(10)>>)
                  /\ ValuesIn(req'[1].cells) \subseteq {0, 1}
             ELSE req'[1].cells = cells
       /\ (Save(1) /\ ~CellsEmpty(cells)) =>
             \A v \in ValuesIn(cells) \cup ValuesIn(cells') :
                 CountIn(cells', v) = CountIn(cells, v)
       /\ cells' # cells => (Save(1) \/ DistributeReq)]_vars

\* The second epoch advance in a row consumes the cells the first one stored,
\* which hold a token of index 1, and moves tokens.
C19_Witness ==
    /\ req[1].pc = "move"
    /\ okEpochs >= 1
    /\ resp[1].op = "newEpoch"
    /\ req[1].cells = cells
    /\ 1 \in ValuesIn(cells)

(***************************************************************************)
(* One step of moveNumbers on the 3x3 map (specification SpecStep).        *)
(***************************************************************************)
\* C20: every step of the token loop of moveNumbers takes the next
\* unprocessed token, removes it from the tokens still to process (so no
\* token is processed twice) and appends it to exactly one cell of the
\* grid whose x and y differ from the token's source cell by at most 1; the
\* next-epoch map has exactly the cells 0 <= x < width, 0 <= y < height.
C20_OneMooreStep ==
    [][MoveToken(1) =>
          LET tok == Head(req[1].todo)
          IN  /\ req'[1].todo = Tail(req[1].todo)
              /\ Len(req'[1].newState) = mcfg.Width * mcfg.Height
              /\ \E k \in 1..(mcfg.Width * mcfg.Height) :
                    /\ req'[1].newState =
                          [req[1].newState EXCEPT ![k] = Append(@, tok.val)]
                    /\ PointX(mcfg, k) - tok.x \in {0 - 1, 0, 1}
                    /\ PointY(mcfg, k) - tok.y \in {0 - 1, 0, 1}]_vars

\* moveNumbers has processed every token of the 3x3 map and the token of the
\* corner cell (0,0) has left its cell.
C20_Witness ==
    /\ mcfg.Width = 3 /\ mcfg.Height = 3
    /\ req[1].pc = "moved"
    /\ Len(req[1].cells[1]) > 0
    /\ Len(req[1].newState[1]) = 0

(***************************************************************************)
(* The speed of a token (specification SpecAlias).                         *)
(***************************************************************************)
\* The token at the head of the tokens to process stays in its source cell
Stays(p) ==
    LET tok == Head(req[p].todo)
    IN  req'[p].newState =
            [req[p].newState EXCEPT ![CellIndex(mcfg, tok.x, tok.y)] =
                Append(@, tok.val)]

\* C21: in every step of the token loop the speed used is speeds[index] for
\* an index below len(speeds) and speeds[0] otherwise (never an index outside
\* the vector): when that speed is 0 the token stays in its source cell,
\* when it is 100 the token stays only if it has no legal neighbour.
C21_SpeedAliasing ==
    [][MoveToken(1) =>
          LET tok == Head(req[1].todo)
              sp == req[1].speeds
              s == IF tok.val < Len(sp) THEN sp[tok.val + 1] ELSE sp[1]
          IN  /\ Len(sp) > 0
              /\ s = 0 => Stays(1)
              /\ s = 100 =>
                    (Stays(1) =>
                        LegalNeighbors(mcfg, mapCircles, req[1].newState, tok) = {})]_vars

\* With speeds [0, 100], moveNumbers has processed a cell map holding a token
\* of index 2 (out of range) and a token of index 1, and a token has moved.
C21_Witness ==
    /\ req[1].pc = "moved"
    /\ req[1].speeds = <<0, 100>>
    /\ {1, 2} \subseteq ValuesIn(req[1].cells)
    /\ req[1].newState # req[1].cells

(***************************************************************************)
(* Forced moves (specification SpecStep).                                  *)
(***************************************************************************)
\* The kind of a grid point as the classification is specified: Center (2)
\* iff the point is the center of some circle, else Interior (1) iff it lies
\* in some disc, else Empty (0)
KindOf(x, y, circles) ==
    IF \E i \in 1..Len(circles) : IsCenterOf(x, y, circles[i]) THEN 2
    ELSE IF \E i \in 1..Len(circles) : InDisc(x, y, circles[i]) THEN 1
    ELSE 0

\* The in-bounds neighbours of token tok that are legal by kind and
\* tentative next-epoch count
LegalByKind(p, tok) ==
    {n \in getNeighbors(tok.x, tok.y, mcfg) :
        LET k == KindOf(n[1], n[2], mapCircles)
            count == Len(req[p].newState[CellIndex(mcfg, n[1], n[2])])
        IN  (k = 1 /\ count < 1) \/ (k = 0 /\ count < 2)}

\* C22: a token whose resolved speed is 100 stays in its source cell only if
\* none of its in-bounds neighbours is legal (each is Center, or Interior
\* with tentative count >= 1, or Empty with tentative count >= 2), and when
\* exactly one neighbour is legal it is committed to that neighbour.
C22_ForcedMove ==
    [][MoveToken(1) =>
          LET tok == Head(req[1].todo)
              legal == LegalByKind(1, tok)
          IN  ResolveSpeed(req[1].speeds, tok.val) = 100 =>
                /\ Stays(1) => legal = {}
                /\ \A n \in legal :
                      legal = {n} =>
                        req'[1].newState =
                            Commit(mcfg, req[1].newState, n, tok.val)]_vars

(***************************************************************************)
(* The in-place moveNumbers (specification SpecInPlace).                   *)
(***************************************************************************)
\* Number of tokens of a cell map
TotalTokens(cs) == Len(TokensFrom(mcfg, cs, 1))

\* C23: the cell map returned by the in-place moveNumbers holds as many
\* tokens as its input.
C23_InPlaceConservation ==
    req[1].pc = "ipdone" => TotalTokens(resp[1].arg) = TotalTokens(req[1].cells)

(***************************************************************************)
(* The selector (specification SpecSelector).                              *)
(***************************************************************************)
\* round(p * 50) for a weight p >= 0 given in eighths
RoundScaled(p) == (p * SelectorScale + 4) \div 8

\* C24: for the probability vector of a distribute request, bucket i appears
\* exactly round(p[i] * 50) times in the selector.
C24_SelectorMultiplicity ==
    resp[1].op = "distribute" =>
        \A i \in 1..Len(resp[1].arg) :
            createProbabilitySelector(resp[1].arg)[i - 1] = RoundScaled(resp[1].arg[i])

(***************************************************************************)
(* Frame of the epoch and the cells (specification Spec).                  *)
(***************************************************************************)
\* C25: the stored epoch is 0 until the first newEpoch call writes it, only
\* the epoch update of newEpoch changes it (by +1), setSpeeds and distribute
\* leave it unchanged, and setSpeeds leaves the stored cells unchanged.
C25_EpochCellFrame ==
    /\ []((okEpochs = 0 /\ req[1].pc # "save") => epoch = 0)
    /\ [][/\ SetSpeedsReq => (epoch' = epoch /\ cells' = cells)
          /\ DistributeReq => epoch' = epoch
          /\ epoch' # epoch => (UpdateEpoch(1) /\ epoch' = epoch + 1)]_vars

\* setSpeeds has replaced the speeds of a map that is at epoch 1 or later
\* and has stored cells.
C25_Witness ==
    /\ resp[1].op = "setSpeeds"
    /\ resp[1].status = "ok"
    /\ epoch >= 1
    /\ ~CellsEmpty(cells)

(***************************************************************************)
(* Failures of the database (specification SpecFault).                     *)
(***************************************************************************)
\* C26: when newEpochHandler answers with an error (loading the cells, the
\* epoch update or saving the cells failed), the stored epoch is the one the
\* call read and the stored cells are unchanged.
C26_FailedEpochChangesNothing ==
    [][/\ LoadFail(1) => (epoch' = req[1].epoch /\ cells' = cells)
       /\ UpdateFail(1) => (epoch' = req[1].epoch /\ cells' = cells)
       /\ SaveFail(1) => (epoch' = req[1].epoch - 1 /\ cells' = cells)]_vars

\* C27: the stored cells of the map are replaced as a whole.  After a
\* successful distribute or newEpoch the stored cells are exactly the cells of
\* the response (rows of cells that hold no token any more are gone), a
\* failed save leaves the stored cells as they were, and the rows of another
\* map are never touched.
C27_CellsReplacedWhole ==
    /\ [](otherCells = OtherRows)
    /\ []((/\ req[1].pc = "idle"
           /\ resp[1].status = "ok"
           /\ resp[1].op \in {"distribute", "newEpoch"}) => cells = resp[1].cells)
    /\ [][(SaveFail(1) \/ DistributeFail(1)) => cells' = cells]_vars

\* A successful newEpoch on the map without circles emptied the first cell,
\* which held a token since the distribution
C27_Witness ==
    /\ resp[1].op = "newEpoch" /\ resp[1].status = "ok"
    /\ mapCircles = << >>
    /\ cells[1] = << >> /\ cells[2] # << >>

(***************************************************************************)
(* The strict maxGap variant (specification SpecStrict).                   *)
(***************************************************************************)
\* C28: when the Generate of part_000 succeeds with at least two circles,
\* every circle has another circle at center distance <= MaxGap; when all
\* circles are placed and the nearest neighbour of some circle is farther
\* than MaxGap, Generate has returned the gap error.
C28_StrictMaxGap ==
    LET all == spawns \o bedrooms
        near(i) == \E j \in (1..Len(all)) \ {i} :
                      Sq(all[i].X - all[j].X) + Sq(all[i].Y - all[j].Y) <= Sq(cfg.MaxGap)
    IN  /\ (gpc = "done" /\ Len(all) >= 2) => \A i \in 1..Len(all) : near(i)
        /\ (/\ gpc \in {"done", "failed"}
            /\ Len(all) >= 2
            /\ Len(spawns) = cfg.Spawns /\ Len(bedrooms) = cfg.Bedrooms
            /\ \E i \in 1..Len(all) : ~near(i))
           => (gpc = "failed" /\ genErr.class = "gap")

\* Generate succeeded with two circles
C28_Witness ==
    gpc = "done" /\ Len(spawns \o bedrooms) >= 2

(***************************************************************************)
(* Configuration errors.                                                   *)
(***************************************************************************)
ConfigError(c) ==
    \/ c.Width <= 0 \/ c.Height <= 0
    \/ c.Width > 100 \/ c.Height > 100
    \/ c.Spawns < 0 \/ c.Bedrooms < 0

\* C29: a request whose config has a non-positive dimension, a dimension
\* above 100 or a negative spawn or bedroom count is answered with an error
\* before any placement attempt, and no map is stored.
C29_ConfigErrorFirst ==
    (ConfigError(cfg) /\ gpc # "request") =>
        /\ gpc = "rejected"
        /\ resp[1].op = "createMap" /\ resp[1].status = "invalid"
        /\ spawns = << >> /\ bedrooms = << >>
        /\ attempts = 0 /\ placedVia = << >>
        /\ mcfg = << >> /\ mapCircles = << >> /\ cells = << >>

\* A request with width 101 was rejected
C29_Witness ==
    gpc = "rejected" /\ cfg.Width > 100

(***************************************************************************)
(* Distinct centers.                                                       *)
(***************************************************************************)
\* C30: no two circles of a layout returned by a successful Generate have
\* the same center, so every Center grid point is the center of exactly one
\* circle.
C30_DistinctCenters ==
    gpc \in {"done", "stored"} =>
        \A i, j \in 1..Len(Layout) :
            (Layout[i].X = Layout[j].X /\ Layout[i].Y = Layout[j].Y) => i = j

====
